---- MODULE Spec2Model ----
(***************************************************************************)
(* Rolling upgrade of a Vault / OpenBao cluster (vault-mgmt).              *)
(*                                                                         *)
(* The model has two parts.  The platform part is the state of the pods    *)
(* of the stateful set as Kubernetes and the Vault processes change it:    *)
(* phase, image tag, the vault-sealed / vault-active labels, the Ready     *)
(* condition and the seal status.  The orchestrator part is               *)
(* StatefulSetApi::upgrade (the driver) calling PodApi::upgrade (the       *)
(* per-pod procedure); every `.await` of the two functions is one          *)
(* position of the program counters dpc / ppc, and the code between two    *)
(* awaits is one atomic step.                                              *)
(***************************************************************************)
EXTENDS Integers, Sequences, FiniteSets, TLC

(* ---------------------------------------------------------------------- *)
(* Bounds and constants                                                   *)
(* ---------------------------------------------------------------------- *)

\* number of replicas of the stateful set
NumPods == 2

\* number of unseal keys handed to the upgrade
NumKeys == 2

\* ExponentialBackoff::from_millis(50).map(jitter).take(5): five delays
RetryDelays == 5

\* hyper::StatusCode::NO_CONTENT
NO_CONTENT == 204

Pods == 1..NumPods

\* image tags: the tests' VERSION_OLD and VERSION_CURRENT
VERSION_OLD == "1.16.0"
VERSION_CURRENT == "1.17.0"
Versions == {VERSION_OLD, VERSION_CURRENT}

\* a tag that is newer than the target (the "too new" pod of the tests)
VERSION_NEWER == "1.18.0"

\* image tag of the stateful set's pod template (the workload is read-only)
TemplateTag == VERSION_CURRENT

\* responses a member can give to PUT /v1/sys/step-down
StepDownStatuses == {204, 200, 202, 500}

\* responses a member can give to PUT /v1/sys/unseal
UnsealStatuses == {200, 204, 307, 400, 500}

VARIABLES
    phase,          \* pod -> "Running" | "Terminating" | "Gone" | "Pending"
    version,        \* pod -> image tag of the pod's container
    sealedLabel,    \* pod -> value of the vault-sealed label
    activeLabel,    \* pod -> value of the vault-active label
    ready,          \* pod -> Ready condition is True
    initialized,    \* pod -> seal-status reports initialized
    opts,           \* the inputs of the run: should_unseal, force_upgrade,
                    \* keys (the number of unseal keys passed) and faults
                    \* (whether requests to the platform may fail in this run)
    dpc,            \* position of StatefulSetApi::upgrade
    target,         \* VaultVersion::try_from(&sts)
    standby,        \* result of the standby listing (pod snapshots)
    active,         \* result of the active listing (pod snapshots)
    idx,            \* position of the running for loop in its list
    ppc,            \* position of PodApi::upgrade
    cur,            \* the `pod` argument of the running PodApi::upgrade
    pod2,           \* the pod re-read by self.api.get(name)
    attempts,       \* failed attempts of Retry::spawn so far
    sent,           \* unseal keys sent so far by pf.unseal(keys)
    trace,          \* history: events of the running PodApi::upgrade
    issued,         \* history: step-down, delete and unseal requests of the run
    call            \* the last call of one of the crate's functions made
                    \* outside a run of the upgrade: its name, its input
                    \* and its result (NoCall during a run of the upgrade)

envVars == <<phase, version, sealedLabel, activeLabel, ready, initialized>>
drvVars == <<dpc, target, standby, active, idx>>
procVars == <<ppc, cur, pod2, attempts, sent>>
histVars == <<trace, issued>>
inVars == <<opts, call>>
vars == <<envVars, inVars, drvVars, procVars, histVars>>

\* no function has been called
NoCall == [fn |-> "none"]

(* ---------------------------------------------------------------------- *)
(* Pod snapshots and the wait conditions                                  *)
(* ---------------------------------------------------------------------- *)

\* Option<&Pod>::None
NoPod == [some |-> FALSE, name |-> 0, phase |-> "Gone", version |-> "",
          sealed |-> "none", active |-> "none", ready |-> FALSE]

\* what a get / list / watch of the pod named p returns now
Snapshot(p) ==
    IF phase[p] = "Gone" THEN NoPod
    ELSE [some |-> TRUE, name |-> p, phase |-> phase[p], version |-> version[p],
          sealed |-> sealedLabel[p], active |-> activeLabel[p], ready |-> ready[p]]


\* mutant: the Ready condition is not looked at
IsPodReadyAnyPod(obj) == obj.some

IsPodReady(obj) == obj.some /\ obj.ready


\* mutant: no pod counts as sealed
IsPodSealedNever(obj) == FALSE

IsPodSealed(obj) == obj.some /\ obj.sealed = "true"


\* mutant: Condition::not forgotten
IsPodUnsealedNotNegated(obj) == IsPodSealed(obj)

IsPodUnsealed(obj) == ~IsPodSealed(obj)

IsPodActive(obj) == obj.some /\ obj.active = "true"


\* mutant: Condition::not forgotten
IsPodStandbyNotNegated(obj) == IsPodActive(obj)

IsPodStandby(obj) == ~IsPodActive(obj)

IsPodRunning(obj) == obj.some /\ obj.phase = "Running"

\* is_deleted(uid) of delete_and_finalize: the deleted pod's uid is gone
IsDeleted(p) == phase[p] # "Terminating"


\* mutant: versions are ordered and a newer pod counts as current
IsCurrentOrNewer(podVersion, tgt) ==
    \/ podVersion = tgt
    \/ <<podVersion, tgt>> \in {<<VERSION_CURRENT, VERSION_OLD>>,
                                <<VERSION_NEWER, VERSION_OLD>>,
                                <<VERSION_NEWER, VERSION_CURRENT>>}

\* PodApi::is_current: `&pod_version == target`, equality of the tags
IsCurrent(podVersion, tgt) == podVersion = tgt

(* ---------------------------------------------------------------------- *)
(* Initial states                                                         *)
(* ---------------------------------------------------------------------- *)

\* A running cluster: every pod is Running and initialized and carries both
\* labels; a pod is sealed or unsealed, at the old or the new image tag; at
\* most one unsealed pod is the leader (0: no leader at the moment).
Cluster ==
    /\ phase = [p \in Pods |-> "Running"]
    /\ version \in [Pods -> Versions]
    /\ sealedLabel \in [Pods -> {"true", "false"}]
    /\ \E leader \in {0} \cup {p \in Pods : sealedLabel[p] = "false"} :
           activeLabel = [p \in Pods |-> IF p = leader THEN "true" ELSE "false"]
    /\ ready = [p \in Pods |-> sealedLabel[p] = "false"]
    /\ initialized = [p \in Pods |-> TRUE]

\* StatefulSetApi::upgrade is called on the cluster with all its keys
Init ==
    /\ Cluster
    /\ opts \in [should_unseal : BOOLEAN, force_upgrade : BOOLEAN,
                 keys : {NumKeys}, faults : {TRUE}]
    /\ dpc = "list_standby"
    /\ target = TemplateTag
    /\ standby = <<>>
    /\ active = <<>>
    /\ idx = 1
    /\ ppc = "idle"
    /\ cur = NoPod
    /\ pod2 = NoPod
    /\ attempts = 0
    /\ sent = 0
    /\ trace = <<>>
    /\ issued = <<>>
    /\ call = NoCall

(* ---------------------------------------------------------------------- *)
(* The platform: Kubernetes and the Vault processes                       *)
(* ---------------------------------------------------------------------- *)

\* the pod's finalizers ran: the object is removed
Finalize(p) ==
    /\ phase[p] = "Terminating"
    /\ phase' = [phase EXCEPT ![p] = "Gone"]
    /\ sealedLabel' = [sealedLabel EXCEPT ![p] = "none"]
    /\ activeLabel' = [activeLabel EXCEPT ![p] = "none"]
    /\ ready' = [ready EXCEPT ![p] = FALSE]
    /\ initialized' = [initialized EXCEPT ![p] = FALSE]
    /\ UNCHANGED <<version, inVars, drvVars, procVars, histVars>>

\* the stateful set controller creates the replacement from the template
Recreate(p) ==
    /\ phase[p] = "Gone"
    /\ phase' = [phase EXCEPT ![p] = "Pending"]
    /\ version' = [version EXCEPT ![p] = TemplateTag]
    /\ UNCHANGED <<sealedLabel, activeLabel, ready, initialized,
                   inVars, drvVars, procVars, histVars>>

\* the replacement's containers are started
Start(p) ==
    /\ phase[p] = "Pending"
    /\ phase' = [phase EXCEPT ![p] = "Running"]
    /\ UNCHANGED <<version, sealedLabel, activeLabel, ready, initialized,
                   inVars, drvVars, procVars, histVars>>

\* the started Vault process registers its labels: sealed, not active
Register(p) ==
    /\ phase[p] = "Running"
    /\ sealedLabel[p] = "none"
    /\ sealedLabel' = [sealedLabel EXCEPT ![p] = "true"]
    /\ activeLabel' = [activeLabel EXCEPT ![p] = "false"]
    /\ UNCHANGED <<phase, version, ready, initialized,
                   inVars, drvVars, procVars, histVars>>

\* the started Vault process has joined the cluster: seal-status initialized
Initialize(p) ==
    /\ phase[p] = "Running"
    /\ ~initialized[p]
    /\ initialized' = [initialized EXCEPT ![p] = TRUE]
    /\ UNCHANGED <<phase, version, sealedLabel, activeLabel, ready,
                   inVars, drvVars, procVars, histVars>>

\* the initialized Vault process got its key shares (from the upgrade or
\* from an external agent) and updates its label
Unsealed(p) ==
    /\ phase[p] = "Running"
    /\ initialized[p]
    /\ sealedLabel[p] = "true"
    /\ sealedLabel' = [sealedLabel EXCEPT ![p] = "false"]
    /\ UNCHANGED <<phase, version, activeLabel, ready, initialized,
                   inVars, drvVars, procVars, histVars>>

\* the readiness probe of the pod succeeds: the Vault process is unsealed
BecomeReady(p) ==
    /\ phase[p] = "Running"
    /\ sealedLabel[p] = "false"
    /\ ~ready[p]
    /\ ready' = [ready EXCEPT ![p] = TRUE]
    /\ UNCHANGED <<phase, version, sealedLabel, activeLabel, initialized,
                   inVars, drvVars, procVars, histVars>>

\* the leader gives up leadership (after a step-down request, or on its own)
LoseLeadership(p) ==
    /\ activeLabel[p] = "true"
    /\ activeLabel' = [activeLabel EXCEPT ![p] = "false"]
    /\ UNCHANGED <<phase, version, sealedLabel, ready, initialized,
                   inVars, drvVars, procVars, histVars>>

\* an unsealed standby wins the election while there is no leader
GainLeadership(p) ==
    /\ \A q \in Pods : activeLabel[q] # "true"
    /\ phase[p] = "Running"
    /\ sealedLabel[p] = "false"
    /\ activeLabel[p] = "false"
    /\ activeLabel' = [activeLabel EXCEPT ![p] = "true"]
    /\ UNCHANGED <<phase, version, sealedLabel, ready, initialized,
                   inVars, drvVars, procVars, histVars>>

(* ---------------------------------------------------------------------- *)
(* StatefulSetApi::upgrade, the driver                                    *)
(* ---------------------------------------------------------------------- *)

Ev(e, o) == [ev |-> e, obs |-> o]

Req(o, p) == [op |-> o, pod |-> p, loop |-> dpc]

\* ExecIn::Standby / ExecIn::Active .to_label_selector()
StandbySelector == "false"
ActiveSelector == "true"

\* pods.api.list(&list_vault_pods().labels(selector)): the pods that carry
\* the label vault-active=val now, in name order
ListPods(val) ==
    SelectSeq([i \in 1..NumPods |-> Snapshot(i)],
              LAMBDA s : s.some /\ s.active = val)

\* the two for loops, in the order of the code
FirstLoop == "standby_loop"

NextLoop(l) == IF l = "standby_loop" THEN "active_loop" ELSE "done_ok"

ListOf(l) == IF l = "standby_loop" THEN standby ELSE active


\* mutant: every pod is restarted
NeedsRestartAlways(podVersion, tgt, force) == TRUE

\* mutant: force_upgrade is ignored
NeedsRestartNoForce(podVersion, tgt, force) == ~IsCurrent(podVersion, tgt)

\* mutant: only force_upgrade restarts a pod
NeedsRestartOnlyForce(podVersion, tgt, force) == force

\* `!Self::is_current(&pod, target)? || force_upgrade`
NeedsRestart(podVersion, tgt, force) == ~IsCurrent(podVersion, tgt) \/ force

\* mutant: every pod with the label is taken for the leader
LabelledActiveAlways(pod) == TRUE

\* `labels.get(LABEL_KEY_VAULT_ACTIVE)...as_str() == "true"`
LabelledActive(pod) == pod.active = "true"

\* mutant: the version of the pod is not compared with the target
EnterPcNoVersionCheck(pod, tgt, force) ==
    IF pod.active = "none" THEN "err"
    ELSE IF LabelledActive(pod) THEN "sd_open"
    ELSE "delete"


\* PodApi::upgrade from its entry to its first await
EnterPc(pod, tgt, force) ==
    IF NeedsRestart(pod.version, tgt, force)
    THEN IF pod.active = "none" THEN "err"
         ELSE IF LabelledActive(pod) THEN "sd_open"
         ELSE "delete"
    ELSE "wait_running"

\* mutant: the list is not looked at
AfterListNoCheck(items, nxt) == nxt

\* `if items.is_empty() { warn!(..); return Ok(()); }`
AfterList(items, nxt) == IF items = <<>> THEN "done_ok" ELSE nxt

ListStandby ==
    /\ dpc = "list_standby"
    /\ standby' = ListPods(StandbySelector)
    /\ dpc' = AfterList(standby', "list_active")
    /\ UNCHANGED <<envVars, inVars, target, active, idx, procVars, histVars>>

ListActive ==
    /\ dpc = "list_active"
    /\ active' = ListPods(ActiveSelector)
    /\ dpc' = AfterList(active', FirstLoop)
    /\ idx' = 1
    /\ UNCHANGED <<envVars, inVars, target, standby, procVars, histVars>>

\* a list call fails: `.await?`
ListFail ==
    /\ dpc \in {"list_standby", "list_active"}
    /\ opts.faults
    /\ dpc' = "done_err"
    /\ UNCHANGED <<envVars, inVars, target, standby, active, idx, procVars, histVars>>


\* mutant: the error of a pod is dropped and the loop goes on
AfterErrContinue(d) == d

\* `pods.upgrade(..).await?` on Err: the driver returns the error
AfterErr(d) == "done_err"

\* one iteration of `for pod in standby.iter()` / `for pod in active.iter()`:
\* call pods.upgrade(pod.clone(), ...), or leave the loop at the end of the list
ForLoop ==
    /\ dpc \in {"standby_loop", "active_loop"}
    /\ ppc = "idle"
    /\ IF idx <= Len(ListOf(dpc))
       THEN LET pod == ListOf(dpc)[idx]
                pc == EnterPc(pod, target, opts.force_upgrade)
            IN  /\ cur' = pod
                /\ ppc' = IF pc = "err" THEN "idle" ELSE pc
                /\ dpc' = IF pc = "err" THEN AfterErr(dpc) ELSE dpc
                /\ trace' = <<>>
                /\ pod2' = NoPod
                /\ attempts' = 0
                /\ sent' = 0
                /\ UNCHANGED <<idx, issued>>
       ELSE /\ dpc' = NextLoop(dpc)
            /\ idx' = 1
            /\ UNCHANGED <<procVars, histVars>>
    /\ UNCHANGED <<envVars, inVars, target, standby, active>>

(* ---------------------------------------------------------------------- *)
(* PodApi::upgrade, the per-pod procedure                                 *)
(* ---------------------------------------------------------------------- *)

\* PodApi::upgrade returns to the loop: Ok(()) or Err
\* (its locals pod2, the retry and the key loop are dropped)
Return(ok) ==
    /\ ppc' = "idle"
    /\ idx' = IF ok THEN idx + 1 ELSE idx
    /\ dpc' = IF ok THEN dpc ELSE AfterErr(dpc)
    /\ pod2' = NoPod
    /\ attempts' = 0
    /\ sent' = 0
    /\ UNCHANGED <<target, standby, active, cur>>

\* PodApi::upgrade goes on to its next await
Goto(pc) ==
    /\ ppc' = pc
    /\ UNCHANGED <<drvVars, cur>>


\* mutant: the empty key list is not rejected
UnsealEntryNoCheck(n) == "unseal"

\* Unseal::unseal up to its first await:
\* `if keys.is_empty() { return Err(..) }`, then the first round of the loop
UnsealEntry(n) == IF n = 0 THEN "err" ELSE "unseal"


\* mutant: should_unseal is not looked at
AfterSealStatusAlwaysUnseal(pod, tgt, should_unseal) ==
    IF ~IsCurrent(pod.version, tgt) THEN "ok"
    ELSE IF pod.sealed \notin {"true", "false"} THEN "err"
    ELSE IF pod.sealed = "true" THEN UnsealEntry(opts.keys)
    ELSE "wait_unsealed"

\* lines 114-130 of PodApi::upgrade, on the re-read pod: where the
\* procedure goes once the seal status is initialized
AfterSealStatus(pod, tgt, should_unseal) ==
    IF ~IsCurrent(pod.version, tgt) THEN "ok"
    ELSE IF pod.sealed \notin {"true", "false"} THEN "err"
    ELSE IF pod.sealed = "true" /\ should_unseal
         THEN UnsealEntry(opts.keys)
    ELSE "wait_unsealed"

\* mutant: the ready wait is placed before the unsealed wait
NextPcReadyFirst(pc) ==
    CASE pc = "sd_open"       -> "sd_resp"
      [] pc = "sd_resp"       -> "wait_standby"
      [] pc = "wait_standby"  -> "delete"
      [] pc = "delete"        -> "wait_deleted"
      [] pc = "wait_deleted"  -> "wait_running"
      [] pc = "wait_running"  -> "get"
      [] pc = "get"           -> "open"
      [] pc = "open"          -> "seal_status"
      [] pc = "seal_status"   ->
            LET nxt == AfterSealStatus(pod2, target, opts.should_unseal)
            IN  IF nxt = "wait_unsealed" THEN "wait_ready" ELSE nxt
      [] pc = "unseal"        -> "wait_ready"
      [] pc = "wait_ready"    -> "wait_unsealed"
      [] pc = "wait_unsealed" -> "ok"

\* mutant: the response to the step-down request is not awaited
NextPcStepDownNotAwaited(pc) ==
    CASE pc = "sd_open"       -> "wait_standby"
      [] pc = "sd_resp"       -> "wait_standby"
      [] pc = "wait_standby"  -> "delete"
      [] pc = "delete"        -> "wait_deleted"
      [] pc = "wait_deleted"  -> "wait_running"
      [] pc = "wait_running"  -> "get"
      [] pc = "get"           -> "open"
      [] pc = "open"          -> "seal_status"
      [] pc = "seal_status"   -> AfterSealStatus(pod2, target, opts.should_unseal)
      [] pc = "unseal"        -> "wait_unsealed"
      [] pc = "wait_unsealed" -> "wait_ready"
      [] pc = "wait_ready"    -> "ok"

\* the statements of PodApi::upgrade in the order of the code: the await
\* that follows the successful await pc ("ok": the final Ok(()))
NextPc(pc) ==
    CASE pc = "sd_open"       -> "sd_resp"
      [] pc = "sd_resp"       -> "wait_standby"
      [] pc = "wait_standby"  -> "delete"
      [] pc = "delete"        -> "wait_deleted"
      [] pc = "wait_deleted"  -> "wait_running"
      [] pc = "wait_running"  -> "get"
      [] pc = "get"           -> "open"
      [] pc = "open"          -> "seal_status"
      [] pc = "seal_status"   -> AfterSealStatus(pod2, target, opts.should_unseal)
      [] pc = "unseal"        -> "wait_unsealed"
      [] pc = "wait_unsealed" -> "wait_ready"
      [] pc = "wait_ready"    -> "ok"

\* the await at ppc succeeded: run on to the next await or to the return
Proceed ==
    LET pc == NextPc(ppc)
    IN  IF pc \in {"ok", "err"}
        THEN Return(pc = "ok")
        ELSE Goto(pc) /\ UNCHANGED <<pod2, attempts, sent>>

\* mutant: the status of the response is not looked at
StepDownOkAlways(status) == TRUE

\* mutant: every success status is accepted
StepDownOkSuccess(status) == status \in 200..299

\* step_down: `parts.status != hyper::StatusCode::NO_CONTENT` is the error
StepDownOk(status) == status = NO_CONTENT

\* self.http(name, VAULT_PORT).await? succeeded; the step-down request is sent
StepDownOpen ==
    /\ ppc = "sd_open"
    /\ issued' = Append(issued, Req("step_down", cur.name))
    /\ Proceed
    /\ UNCHANGED <<envVars, inVars, trace>>

\* the response to the step-down request
StepDownResponse ==
    /\ ppc = "sd_resp"
    /\ \E status \in (IF opts.faults THEN StepDownStatuses ELSE {NO_CONTENT}) :
          IF StepDownOk(status)
          THEN /\ trace' = Append(trace, Ev("step_down", ToString(status)))
               /\ Proceed
          ELSE /\ Return(FALSE)
               /\ UNCHANGED trace
    /\ UNCHANGED <<envVars, inVars, issued>>

\* await_condition(api, name, is_pod_standby()) returns
AwaitStandby ==
    /\ ppc = "wait_standby"
    /\ IsPodStandby(Snapshot(cur.name))
    /\ trace' = Append(trace, Ev("leader_lost", Snapshot(cur.name).active))
    /\ Proceed
    /\ UNCHANGED <<envVars, inVars, issued>>

\* delete_and_finalize: the DELETE request
DeletePod ==
    /\ ppc = "delete"
    /\ phase[cur.name] = "Running"
    /\ phase' = [phase EXCEPT ![cur.name] = "Terminating"]
    /\ trace' = Append(trace, Ev("delete", ""))
    /\ issued' = Append(issued, Req("delete", cur.name))
    /\ Proceed
    /\ UNCHANGED <<version, sealedLabel, activeLabel, ready, initialized, inVars>>

\* delete_and_finalize: the wait for is_deleted(uid) returns
AwaitDeleted ==
    /\ ppc = "wait_deleted"
    /\ IsDeleted(cur.name)
    /\ trace' = Append(trace, Ev("deleted", ""))
    /\ Proceed
    /\ UNCHANGED <<envVars, inVars, issued>>

\* await_condition(api, name, is_pod_running()) returns
AwaitRunning ==
    /\ ppc = "wait_running"
    /\ IsPodRunning(Snapshot(cur.name))
    /\ trace' = Append(trace, Ev("running", ""))
    /\ Proceed
    /\ UNCHANGED <<envVars, inVars, issued>>

\* `let pod = self.api.get(name).await?`
GetPod ==
    /\ ppc = "get"
    /\ Snapshot(cur.name).some
    /\ pod2' = Snapshot(cur.name)
    /\ Goto(NextPc(ppc))
    /\ UNCHANGED <<envVars, inVars, attempts, sent, histVars>>

\* one attempt of Retry::spawn(..take(5), || self.http(name, VAULT_PORT)):
\* after a failure the next delay is taken; with no delay left it is the error

\* mutant: the strategy yields one more delay
RetryLeftOneMore(failed) == failed < RetryDelays + 1

\* Retry::spawn after a failed attempt: `self.strategy.next()` is Some while
\* fewer attempts have failed than the strategy has delays
RetryLeft(failed) == failed < RetryDelays

OpenChannel ==
    /\ ppc = "open"
    /\ \E ok \in (IF opts.faults THEN BOOLEAN ELSE {TRUE}) :
          IF ok
          THEN /\ trace' = Append(trace, Ev("channel", ""))
               /\ Goto(NextPc(ppc))
               /\ attempts' = 0
               /\ UNCHANGED <<pod2, sent>>
          ELSE IF RetryLeft(attempts)
          THEN /\ attempts' = attempts + 1
               /\ Goto("open")
               /\ UNCHANGED <<pod2, sent, trace>>
          ELSE /\ Return(FALSE)
               /\ UNCHANGED trace
    /\ UNCHANGED <<envVars, inVars, issued>>

\* one poll of pf.await_seal_status(is_seal_status_initialized())
SealStatus ==
    /\ ppc = "seal_status"
    /\ IF initialized[cur.name]
       THEN /\ trace' = Append(trace, Ev("initialized", ""))
            /\ Proceed
       ELSE /\ Goto("seal_status")
            /\ UNCHANGED <<pod2, attempts, sent, trace>>
    /\ UNCHANGED <<envVars, inVars, issued>>

\* an unseal request: the key is the position of the key in `keys`
UnsealReq(p, k) == [op |-> "unseal", pod |-> p, loop |-> dpc, key |-> k]


\* mutant: the loop sends the first key again
NextKeyFirst(done) == 1

\* `for key in keys`: the key of the round after `done` answered rounds
NextKey(done) == done + 1


\* mutant: the loop ends after the first key
LastKeyFirst(done, n) == TRUE

\* `for key in keys` ends: the answered round was the one of the last key
LastKey(done, n) == done + 1 = n

\* mutant: a redirection is an error
IsOkStatusOnlySuccess(status) == status \in 200..299

\* `parts.status.is_success() || parts.status.is_redirection()`
IsOkStatus(status) == status \in 200..299 \/ status \in 300..399

\* one round of `for key in keys` of Unseal::unseal, first half:
\* self.ready() returned, the request with the key is sent
UnsealSend ==
    /\ ppc = "unseal"
    /\ issued' = Append(issued, UnsealReq(cur.name, NextKey(sent)))
    /\ Goto("unseal_resp")
    /\ UNCHANGED <<envVars, inVars, pod2, attempts, sent, trace>>

\* second half: the response; a status that is neither 2xx nor 3xx is the
\* error, after the last key the loop ends with Ok(())
UnsealResponse ==
    /\ ppc = "unseal_resp"
    /\ \E status \in (IF opts.faults THEN UnsealStatuses
                                      ELSE {st \in UnsealStatuses : IsOkStatus(st)}) :
          IF IsOkStatus(status)
          THEN /\ trace' = Append(trace, Ev("unseal", ""))
               /\ IF LastKey(sent, opts.keys)
                  THEN Goto(NextPc("unseal")) /\ sent' = 0
                  ELSE Goto("unseal") /\ sent' = sent + 1
               /\ UNCHANGED <<pod2, attempts>>
          ELSE /\ Return(FALSE)
               /\ UNCHANGED trace
    /\ UNCHANGED <<envVars, inVars, issued>>

\* await_condition(api, name, is_pod_unsealed()) returns
AwaitUnsealed ==
    /\ ppc = "wait_unsealed"
    /\ IsPodUnsealed(Snapshot(cur.name))
    /\ trace' = Append(trace, Ev("unsealed", Snapshot(cur.name).sealed))
    /\ Proceed
    /\ UNCHANGED <<envVars, inVars, issued>>

\* await_condition(api, name, is_pod_ready()) returns
AwaitReady ==
    /\ ppc = "wait_ready"
    /\ IsPodReady(Snapshot(cur.name))
    /\ trace' = Append(trace, Ev("ready", "True"))
    /\ Proceed
    /\ UNCHANGED <<envVars, inVars, issued>>

\* the awaits that end in `?` or map_err(..)?: the call, watch or poll fails
FalliblePcs == {"sd_open", "sd_resp", "wait_standby", "delete", "wait_deleted",
                "wait_running", "get", "seal_status", "unseal", "unseal_resp",
                "wait_unsealed", "wait_ready"}


\* mutant: a failed delete is not propagated and the procedure goes on
FailPcDeleteIgnored(pc) ==
    IF pc \in {"delete", "wait_deleted"} THEN "wait_running" ELSE "err"

\* where the procedure goes when the await at pc fails: `?` returns the error
FailPc(pc) == "err"

ProcFail ==
    /\ ppc \in FalliblePcs
    /\ opts.faults
    /\ IF FailPc(ppc) = "err"
       THEN Return(FALSE)
       ELSE Goto(FailPc(ppc)) /\ UNCHANGED <<pod2, attempts, sent>>
    /\ UNCHANGED <<envVars, inVars, histVars>>

(* ---------------------------------------------------------------------- *)
(* Specification                                                          *)
(* ---------------------------------------------------------------------- *)

\* the model covers one run of the driver: until it has returned
InRun == dpc \notin {"done_ok", "done_err"}

Platform ==
    /\ InRun
    /\ \E p \in Pods :
        \/ Finalize(p)
        \/ Recreate(p)
        \/ Start(p)
        \/ Register(p)
        \/ Initialize(p)
        \/ Unsealed(p)
        \/ BecomeReady(p)
        \/ LoseLeadership(p)
        \/ GainLeadership(p)

Driver == ListStandby \/ ListActive \/ ListFail \/ ForLoop

Steps ==
    \/ StepDownOpen
    \/ StepDownResponse
    \/ AwaitStandby
    \/ DeletePod
    \/ AwaitDeleted
    \/ AwaitRunning
    \/ GetPod
    \/ OpenChannel
    \/ SealStatus
    \/ UnsealSend
    \/ UnsealResponse
    \/ AwaitUnsealed
    \/ AwaitReady

Procedure == Steps \/ ProcFail

Next == Platform \/ Driver \/ Procedure

Spec == Init /\ [][Next]_vars

(* ---------------------------------------------------------------------- *)
(* One call of PodApi::upgrade, as the tests and the unseal tests make it  *)
(* ---------------------------------------------------------------------- *)

\* `let pod = pods.api.get(name)` and then `pods.upgrade(pod, ..)` on one pod
\* of the cluster: the call is the only iteration of a loop over that pod
PodCall(keys, faults) ==
    /\ Cluster
    /\ opts \in [should_unseal : BOOLEAN, force_upgrade : BOOLEAN,
                 keys : keys, faults : faults]
    /\ dpc = "standby_loop"
    /\ target = TemplateTag
    /\ \E p \in Pods : standby = <<Snapshot(p)>>
    /\ active = <<>>
    /\ idx = 1
    /\ ppc = "idle"
    /\ cur = NoPod
    /\ pod2 = NoPod
    /\ attempts = 0
    /\ sent = 0
    /\ trace = <<>>
    /\ issued = <<>>
    /\ call = NoCall

\* any number of keys, requests may fail
PodInit == PodCall(0..NumKeys, {TRUE})

PodNext == Platform \/ ForLoop \/ Procedure

PodSpec == PodInit /\ [][PodNext]_vars

\* no request fails
FairPodInit == PodCall(0..NumKeys, {FALSE})

FairPodNext == Platform \/ ForLoop \/ Steps

\* the platform brings a deleted pod back (recreated, started, labelled,
\* initialized, unsealed by the keys it gets, then ready) and a leader that
\* answered the step-down with 204 gives up leadership; the task running PodApi::upgrade is
\* polled whenever one of its awaits can return, and a watch sees every
\* change of the pod
PlatformProgress(p) ==
    \/ Finalize(p)
    \/ Recreate(p)
    \/ Start(p)
    \/ Register(p)
    \/ Initialize(p)
    \/ Unsealed(p)
    \/ BecomeReady(p)

FairPodSpec ==
    /\ FairPodInit
    /\ [][FairPodNext]_vars
    /\ \A p \in Pods : WF_vars(InRun /\ PlatformProgress(p))
    /\ WF_vars(ppc = "wait_standby" /\ LoseLeadership(cur.name))
    /\ SF_vars(ForLoop \/ Steps)

(* ---------------------------------------------------------------------- *)
(* Properties                                                             *)
(* ---------------------------------------------------------------------- *)

StandbyNames == {standby[i].name : i \in 1..Len(standby)}

ActiveNames == {active[i].name : i \in 1..Len(active)}

Deletes == {k \in 1..Len(issued) : issued[k].op = "delete"}

DeletedPods == {issued[k].pod : k \in Deletes}

\* this step issues a request (a step-down or a delete)
Issues == Len(issued') = Len(issued) + 1

\* this step issues a delete request
IssuesDelete == Issues /\ issued'[Len(issued')].op = "delete"

\* this step is a successful return of PodApi::upgrade
ReturnsOk == ppc # "idle" /\ ppc' = "idle" /\ dpc' # "done_err"

HasEvent(e) == \E k \in 1..Len(trace) : trace[k].ev = e

\* C1: no step-down and no delete is issued against a pod of the active
\* list before the loop over the standby list has finished (the requests of
\* the standby loop go to pods that are not in the active list).
C1_StandbysBeforeActives ==
    \A k \in 1..Len(issued) :
        issued[k].pod \in ActiveNames => issued[k].loop = "active_loop"

\* C2: in an invocation whose input pod is labelled active, a delete is
\* requested only directly after the step-down returned 204 and then the
\* standby watch returned a snapshot that is not labelled active.
C2_DeleteAfterStepDown ==
    \A k \in 1..Len(trace) :
        (trace[k].ev = "delete" /\ cur.active = "true") =>
            /\ k >= 3
            /\ trace[k - 2] = Ev("step_down", "204")
            /\ trace[k - 1].ev = "leader_lost"
            /\ trace[k - 1].obs # "true"

\* an active input pod was stepped down and then deleted
C2_Witness ==
    /\ cur.active = "true"
    /\ HasEvent("delete")
    /\ ~IsCurrent(cur.version, target)

\* C3: the pod a delete request goes to is not labelled active at the
\* moment of the request.
C3_NeverDeleteLeader ==
    [][IssuesDelete => activeLabel[cur.name] # "true"]_vars

\* C4: when a pod that was stepped down in this invocation is deleted,
\* another pod is labelled active.
C4_SuccessorBeforeDelete ==
    [][(IssuesDelete /\ HasEvent("step_down")) =>
            \E q \in Pods \ {cur.name} : activeLabel[q] = "true"]_vars

\* C5: when a delete is requested, every pod deleted before in this run is
\* unsealed and ready: no two pods are between deletion and ready.
C5_OneRestartAtATime ==
    [][IssuesDelete =>
            \A q \in DeletedPods : sealedLabel[q] = "false" /\ ready[q]]_vars

\* a second pod has been deleted after the first one
C5_Witness == Cardinality(DeletedPods) >= 2

\* the step-down and delete requests of the run
Disruptions == SelectSeq(issued, LAMBDA r : r.op \in {"step_down", "delete"})

\* C6: while every pod is at the target version, unsealed and ready,
\* force_upgrade is false and no delete or step-down has been issued, no
\* step issues a delete or a step-down (so a run that starts like this
\* issues none).
C6_NoopWhenCurrent ==
    [][(/\ ~opts.force_upgrade
        /\ \A p \in Pods : /\ IsCurrent(version[p], target)
                           /\ sealedLabel[p] = "false"
                           /\ ready[p]
        /\ Disruptions = <<>>) => Disruptions' = <<>>]_vars

\* the driver went through both loops of such a cluster and issued nothing
C6_Witness ==
    /\ dpc = "done_ok"
    /\ ~opts.force_upgrade
    /\ \A p \in Pods : /\ IsCurrent(version[p], target)
                       /\ sealedLabel[p] = "false"
                       /\ ready[p]
    /\ StandbyNames \cup ActiveNames = Pods
    /\ issued = <<>>

\* every delete of the standby loop precedes every delete of the active loop
StandbyDeletesFirst ==
    \A j, k \in Deletes :
        (issued[j].loop = "standby_loop" /\ issued[k].loop = "active_loop") => j < k

Rank(e) ==
    CASE e = "step_down"   -> 1
      [] e = "leader_lost" -> 2
      [] e = "delete"      -> 3
      [] e = "deleted"     -> 4
      [] e = "running"     -> 5
      [] e = "channel"     -> 6
      [] e = "initialized" -> 7
      [] e = "unseal"      -> 8
      [] e = "unsealed"    -> 9
      [] e = "ready"       -> 10

\* C8: the events of one invocation occur in the order step-down,
\* leadership lost, delete, deleted, running, channel, initialized, unseal
\* submissions, unsealed, ready; only the unseal submission repeats.
C8_EventOrder ==
    \A i, j \in 1..Len(trace) :
        i < j => \/ Rank(trace[i].ev) < Rank(trace[j].ev)
                 \/ trace[i].ev = "unseal" /\ trace[j].ev = "unseal"

\* an invocation that went through every event
C8_Witness ==
    /\ Len(trace) = 9 + NumKeys
    /\ trace[1].ev = "step_down"
    /\ trace[Len(trace)].ev = "ready"

\* C9: a successful return of the procedure has behind it, after the
\* delete if there was one, the seal status initialized, then a snapshot
\* with the sealed label "false", then a snapshot with Ready true.
C9_SuccessAfterHealthy ==
    [][ReturnsOk =>
        \E i, j, k \in 1..Len(trace') :
            /\ i < j
            /\ j < k
            /\ trace'[i].ev = "initialized"
            /\ trace'[j] = Ev("unsealed", "false")
            /\ trace'[k] = Ev("ready", "True")
            /\ \A d \in 1..Len(trace') : trace'[d].ev = "delete" => d < i]_vars

\* a procedure that restarted the pod has returned successfully
C9_Witness ==
    /\ ppc = "idle"
    /\ dpc \in {"standby_loop", "active_loop"}
    /\ HasEvent("delete")
    /\ HasEvent("ready")

UnsealReqs == SelectSeq(issued, LAMBDA r : r.op = "unseal")

\* the unseal requests of the running call that were answered 2xx / 3xx
OkResponses == Cardinality({k \in 1..Len(trace) : trace[k].ev = "unseal"})

\* C11: one call of PodApi::upgrade sends the keys one request per key, in
\* the order of the key list (request i carries key i, never more requests
\* than keys); a request is sent only when every earlier one was answered
\* 2xx / 3xx (never two in flight); after a request that was not answered
\* 2xx / 3xx the call has returned the error and nothing more is sent; when
\* the call goes on to the unsealed wait it has sent all the keys.
C11_UnsealSequence ==
    /\ \A i \in 1..Len(UnsealReqs) : UnsealReqs[i].key = i
    /\ Len(UnsealReqs) <= opts.keys
    /\ Len(UnsealReqs) - OkResponses \in {0, 1}
    /\ ppc = "unseal" => Len(UnsealReqs) = OkResponses
    /\ (Len(UnsealReqs) > OkResponses /\ ppc # "unseal_resp") => dpc = "done_err"
    /\ (UnsealReqs # <<>> /\ dpc # "done_err" /\ ppc \notin {"unseal", "unseal_resp"})
            => (Len(UnsealReqs) = opts.keys /\ OkResponses = opts.keys)

\* the second of two keys was refused: the call ended with the error
C11_Witness ==
    /\ dpc = "done_err"
    /\ opts.keys = 2
    /\ Len(UnsealReqs) = 2
    /\ OkResponses = 1

\* C12: with an empty key list no unseal request is ever sent, and the call
\* with should_unseal on a sealed pod at the target version returns an error
\* when it comes to the unseal (the seal status is initialized).
C12_EmptyKeysError ==
    [][opts.keys = 0 =>
        /\ \A k \in 1..Len(issued') : issued'[k].op # "unseal"
        /\ (/\ ppc = "seal_status"
            /\ trace' # trace
            /\ opts.should_unseal
            /\ IsCurrent(pod2.version, target)
            /\ pod2.sealed = "true") => (dpc' = "done_err" /\ ppc' = "idle")]_vars

\* the call on a sealed current pod ended with the error of the empty list
C12_Witness ==
    /\ dpc = "done_err"
    /\ opts.keys = 0
    /\ opts.should_unseal
    /\ cur.some
    /\ cur.sealed = "true"
    /\ sealedLabel[cur.name] = "true"
    /\ ~HasEvent("delete")
    /\ trace # <<>>
    /\ trace[Len(trace)].ev = "initialized"

\* C13: with should_unseal false no unseal request is sent, whatever the
\* seal state of the pod and whatever keys were passed.
C13_NoUnsealWithoutFlag == ~opts.should_unseal => UnsealReqs = <<>>

\* keys were passed, the re-read pod is sealed, the call waits without them
C13_Witness ==
    /\ ~opts.should_unseal
    /\ opts.keys > 0
    /\ ppc = "wait_unsealed"
    /\ pod2.some
    /\ pod2.sealed = "true"
    /\ sealedLabel[cur.name] = "true"

\* this step is a step of a call with should_unseal false that has deleted
\* its pod, and it leaves the restarted pod not unsealed
StaysSealed ==
    /\ ~opts.should_unseal
    /\ ppc # "idle"
    /\ HasEvent("delete")
    /\ sealedLabel'[cur.name] # "false"

ExternalUnsealCall ==
    /\ cur.some
    /\ ~opts.should_unseal
    /\ opts.keys = 0
    /\ ~IsCurrent(cur.version, target)

\* C15: the call on an outdated pod with should_unseal false and no keys,
\* with an external task that unseals the restarted pod, eventually returns
\* Ok (no request fails, the platform is fair).
C15_ExternalUnsealSucceeds == [](ExternalUnsealCall => <>(dpc = "done_ok"))

\* the running or finished call is on an outdated standby pod with
\* should_unseal and keys
OutdatedStandbyCall ==
    /\ cur.some
    /\ opts.should_unseal
    /\ opts.keys > 0
    /\ ~IsCurrent(cur.version, target)
    /\ cur.active = "false"

\* C16: the call on an outdated standby with should_unseal and keys
\* eventually returns Ok with the pod at the target version (no request
\* fails, the platform is fair).
C16_StandbyUpgradeSucceeds ==
    [](OutdatedStandbyCall =>
          <>(dpc = "done_ok" /\ IsCurrent(version[cur.name], target)))

\* what does hold of the two calls: they eventually return
CallsReturn ==
    [](cur.some => <>(dpc \in {"done_ok", "done_err"}))

\* the running call is on a pod at the target version, not forced, with
\* should_unseal and keys, and the pod it re-read is sealed
SealedCurrentCall ==
    /\ cur.some
    /\ IsCurrent(cur.version, target)
    /\ ~opts.force_upgrade
    /\ opts.should_unseal
    /\ opts.keys > 0
    /\ pod2.some
    /\ pod2.sealed = "true"

\* C17: a call on a pod at the target version, not forced, with
\* should_unseal, whose re-read pod is sealed, sends no delete and no
\* step-down; it sends the keys, is in the unsealed and ready waits only
\* with all keys answered, and returns Ok only from the ready wait, after
\* the unsealed wait.
C17_SealedCurrentIsUnsealed ==
    [][SealedCurrentCall =>
        /\ \A k \in 1..Len(issued') : issued'[k].op = "unseal"
        /\ ppc \in {"wait_unsealed", "wait_ready"} =>
                (OkResponses = opts.keys /\ Len(UnsealReqs) = opts.keys)
        /\ (ppc = "seal_status" /\ trace' # trace) => ppc' = "unseal"
        /\ (ppc' = "idle" /\ dpc' # "done_err") =>
                (ppc = "wait_ready" /\ HasEvent("unsealed"))]_vars

\* such a call has sent its keys and waits for the pod to be ready
C17_Witness ==
    /\ SealedCurrentCall
    /\ cur.sealed = "true"
    /\ ppc = "wait_ready"
    /\ OkResponses = opts.keys
    /\ issued # <<>>
    /\ \A k \in 1..Len(issued) : issued[k].op = "unseal"

\* this step is PodApi::upgrade returning an error to the loop: the call
\* ends and the loop does not move on to the next pod
ReturnsErr == ppc # "idle" /\ ppc' = "idle" /\ idx' = idx

\* C18: when PodApi::upgrade returns an error the driver returns the error,
\* and once the driver has returned the error no request (step-down, delete,
\* unseal) is issued any more.
C18_AbortOnFirstError ==
    [][/\ ReturnsErr => dpc' = "done_err"
       /\ dpc = "done_err" => issued' = issued]_vars

\* the first pod of the standby loop failed after its delete; the pods of
\* the active list were never touched
C18_Witness ==
    /\ dpc = "done_err"
    /\ cur.some
    /\ standby # <<>>
    /\ cur.name = standby[1].name
    /\ active # <<>>
    /\ issued = <<[op |-> "delete", pod |-> cur.name, loop |-> "standby_loop"]>>
    /\ cur.name \notin ActiveNames

\* C19: a driver that found the standby list or the active list empty
\* returns Ok and has issued no request.
C19_EmptyListNoRequests ==
    /\ (dpc \notin {"list_standby", "done_err"} /\ standby = <<>>) =>
            (dpc = "done_ok" /\ issued = <<>>)
    /\ (dpc \notin {"list_standby", "list_active", "done_err"} /\ active = <<>>) =>
            (dpc = "done_ok" /\ issued = <<>>)

\* there are standbys but no active pod: the driver returned Ok
C19_Witness ==
    /\ dpc = "done_ok"
    /\ standby # <<>>
    /\ active = <<>>
    /\ \E i \in 1..Len(standby) : ~IsCurrent(standby[i].version, target)

\* C20 as stated: the channel is opened at most five times in all (with
\* `attempts` failed attempts behind it the call is about to make attempt
\* number attempts + 1).
C20_AtMostFiveAttempts == ppc = "open" => attempts + 1 <= 5

\* C20 amended: the channel is opened at most RetryDelays + 1 = 6 times, the
\* first attempt and one after each of the five delays; the call leaves the
\* retry either with the channel for the seal-status poll or, when the last
\* attempt failed too, with the error, without any further event or request.
C20_AtMostSixAttempts ==
    [][ppc = "open" =>
        /\ attempts + 1 <= RetryDelays + 1
        /\ ppc' \in {"open", "seal_status", "idle"}
        /\ ppc' = "idle" =>
              /\ attempts = RetryDelays
              /\ dpc' = "done_err"
              /\ trace' = trace
              /\ issued' = issued]_vars

\* five attempts have failed and the call makes one more
C20_Witness ==
    /\ ppc = "open"
    /\ attempts = RetryDelays
    /\ trace # <<>>
    /\ trace[Len(trace)].ev = "running"

\* the step-down requests of the run
StepDowns == SelectSeq(issued, LAMBDA r : r.op = "step_down")

\* the input pod of the call is labelled active and is outdated or the
\* upgrade is forced
LeaderToRestart ==
    /\ cur.some
    /\ cur.active = "true"
    /\ (cur.version # target \/ opts.force_upgrade)

C22_StepDownFailureAborts ==
    [][/\ (ppc = "sd_resp" /\ ppc' \notin {"sd_resp", "idle"}) =>
              trace' = Append(trace, Ev("step_down", "204"))
       /\ (ppc \in {"sd_open", "sd_resp", "wait_standby"} /\ ppc' = "idle") =>
              /\ dpc' = "done_err"
              /\ \A k \in 1..Len(issued') : issued'[k].op # "delete"
              /\ phase'[cur.name] = "Running"]_vars

C22_Witness ==
    /\ dpc = "done_err"
    /\ Len(StepDowns) = 1
    /\ Deletes = {}
    /\ \A p \in Pods : phase[p] = "Running"

(* ---------------------------------------------------------------------- *)
(* The crate's functions called on their own, as the unit tests call them *)
(* ---------------------------------------------------------------------- *)

\* no upgrade is running: the cluster is healthy and at the target version,
\* pod 1 is the leader, and the driver and the procedure are at rest
FnInit ==
    /\ phase = [p \in Pods |-> "Running"]
    /\ version = [p \in Pods |-> TemplateTag]
    /\ sealedLabel = [p \in Pods |-> "false"]
    /\ activeLabel = [p \in Pods |-> IF p = 1 THEN "true" ELSE "false"]
    /\ ready = [p \in Pods |-> TRUE]
    /\ initialized = [p \in Pods |-> TRUE]
    /\ opts = [should_unseal |-> TRUE, force_upgrade |-> FALSE,
               keys |-> NumKeys, faults |-> FALSE]
    /\ dpc = "done_ok"
    /\ target = TemplateTag
    /\ standby = <<>>
    /\ active = <<>>
    /\ idx = 1
    /\ ppc = "idle"
    /\ cur = NoPod
    /\ pod2 = NoPod
    /\ attempts = 0
    /\ sent = 0
    /\ trace = <<>>
    /\ issued = <<>>
    /\ call = NoCall

\* one call is looked at in a behaviour; it changes nothing but the record
\* of the call
Called(fn, in, out) ==
    /\ call = NoCall
    /\ call' = [fn |-> fn, in |-> in, out |-> out]
    /\ UNCHANGED <<envVars, opts, drvVars, procVars, histVars>>

\* the status codes a response can carry
HttpStatuses == 100..599

\* client.step_down(token) against a server that answers with `status`
CallStepDown ==
    \E status \in HttpStatuses :
        Called("step_down", status, IF StepDownOk(status) THEN "Ok" ELSE "Err")

\* the values a label of an observed pod can have: "none" is a pod without
\* the label (or without any labels), "maybe" a value that is neither
\* "true" nor "false"
LabelValues == {"none", "true", "false", "maybe"}

\* the tags of the pods and targets of the calls
AllVersions == Versions \cup {VERSION_NEWER}

\* the pods a caller can pass or a watch can deliver
Observations ==
    [some : {TRUE}, name : {1}, phase : {"Running", "Pending"},
     version : AllVersions, sealed : LabelValues, active : LabelValues,
     ready : BOOLEAN]

\* is_pod_exporting_seal_status: `labels.get("vault-sealed").is_some()`
IsPodExportingSealStatus(obj) == obj.some /\ obj.sealed # "none"

\* the conditions of wait.rs over pods
Conditions == {"is_pod_ready", "is_pod_exporting_seal_status",
               "is_pod_unsealed", "is_pod_sealed", "is_pod_active",
               "is_pod_standby"}

\* cond.matches_object(obj)
MatchesObject(cond, obj) ==
    CASE cond = "is_pod_ready"                 -> IsPodReady(obj)
      [] cond = "is_pod_exporting_seal_status" -> IsPodExportingSealStatus(obj)
      [] cond = "is_pod_unsealed"              -> IsPodUnsealed(obj)
      [] cond = "is_pod_sealed"                -> IsPodSealed(obj)
      [] cond = "is_pod_active"                -> IsPodActive(obj)
      [] cond = "is_pod_standby"               -> IsPodStandby(obj)

\* a wait condition is evaluated on what the watch delivers: a pod or None
CallCondition ==
    \E cond \in Conditions, obj \in Observations \cup {NoPod} :
        Called(cond, obj, MatchesObject(cond, obj))

\* PodApi::upgrade(pod, target, ..) is entered with a pod: up to its first
\* await (lines 50-64: is the pod restarted, is it the leader)
CallUpgradeEntry ==
    \E pod \in Observations, force \in BOOLEAN :
        Called("upgrade_entry", [pod |-> pod, force |-> force],
               EnterPc(pod, target, force))

\* PodApi::upgrade after the seal status is initialized, on the pod it
\* re-read (lines 114-130: is_current, is_sealed, unseal)
CallAfterSealStatus ==
    \E pod \in Observations, should_unseal \in BOOLEAN :
        Called("after_seal_status", [pod |-> pod, should_unseal |-> should_unseal],
               AfterSealStatus(pod, target, should_unseal))

\* Flavor::Vault / Flavor::OpenBao as they are displayed
Flavors == {"vault", "openbao"}

\* format!("{}-active", flavor) / format!("{}-sealed", flavor): a label key
\* is the pair of its prefix and its suffix
FlavorKey(flavor, suffix) == <<flavor, suffix>>

\* the readers of the active and the sealed label
LabelReaders == {"ExecIn::Active", "ExecIn::Standby", "ExecIn::Sealed",
                 "is_sealed", "is_active", "step_down_decision",
                 "is_pod_sealed", "is_pod_unsealed", "is_pod_active",
                 "is_pod_standby"}

\* the key of the label each reader looks up when the orchestrator runs for
\* `flavor`: the selectors and the helpers format it from the flavor, the
\* conditions of wait.rs and the step-down decision take no flavor and name
\* the key of Vault
LabelKey(reader, flavor) ==
    CASE reader \in {"ExecIn::Active", "ExecIn::Standby"} ->
            FlavorKey(flavor, "active")
      [] reader = "ExecIn::Sealed" -> FlavorKey(flavor, "sealed")
      [] reader = "is_sealed" -> FlavorKey(flavor, "sealed")
      [] reader = "is_active" -> FlavorKey(flavor, "active")
      [] reader = "step_down_decision" -> <<"vault", "active">>
      [] reader \in {"is_pod_sealed", "is_pod_unsealed"} -> <<"vault", "sealed">>
      [] reader \in {"is_pod_active", "is_pod_standby"} -> <<"vault", "active">>

\* a reader is used in a run for `flavor`
CallLabelKey ==
    \E flavor \in Flavors, reader \in LabelReaders :
        Called("label_key", [flavor |-> flavor, reader |-> reader],
               LabelKey(reader, flavor))

\* the number of snapshots a watch delivers in a behaviour
MaxEvents == 2

\* status.replicas of the stateful set
Replicas == 0..NumPods

\* Option<i32>: None is <<>>, Some(n) is <<n>>
OptReplicas == {<<>>} \cup {<<n>> : n \in Replicas}

\* Option<&StatefulSet>::None (the stateful set is gone)
NoSts == [some |-> FALSE, status |-> FALSE, replicas |-> 0,
          ready_replicas |-> <<>>, available_replicas |-> <<>>]

\* a stateful set without a status
NoStatus == [NoSts EXCEPT !.some = TRUE]

\* what a watch of the stateful set can deliver
StsSnapshots ==
    {NoSts, NoStatus} \cup
    [some : {TRUE}, status : {TRUE}, replicas : Replicas,
     ready_replicas : OptReplicas, available_replicas : OptReplicas]


\* mutant: available_replicas is not compared
IsStatefulSetReadyOnlyReady(obj) ==
    /\ obj.some
    /\ obj.status
    /\ obj.ready_replicas # <<>>
    /\ obj.available_replicas # <<>>
    /\ obj.ready_replicas[1] = obj.replicas

\* is_statefulset_ready: `(Some(ready), Some(available)) =>
\* ready == available && ready == status.replicas`, false otherwise
IsStatefulSetReady(obj) ==
    /\ obj.some
    /\ obj.status
    /\ obj.ready_replicas # <<>>
    /\ obj.available_replicas # <<>>
    /\ obj.ready_replicas[1] = obj.available_replicas[1]
    /\ obj.ready_replicas[1] = obj.replicas

\* await_condition(api, name, is_statefulset_ready()) is called: the watch
\* is subscribed and nothing was delivered yet
AwaitStart == Called("await_condition", <<>>, "Pending")

\* the watch delivers the next snapshot to the pending await, which applies
\* the condition to it and returns if it holds
WatchDeliver ==
    /\ call.fn = "await_condition"
    /\ call.out = "Pending"
    /\ Len(call.in) < MaxEvents
    /\ \E sts \in StsSnapshots :
          call' = [call EXCEPT !.in = Append(@, sts),
                               !.out = IF IsStatefulSetReady(sts)
                                       THEN "Returned" ELSE "Pending"]
    /\ UNCHANGED <<envVars, opts, drvVars, procVars, histVars>>

\* the longest image reference of the model, in characters
MaxImageLen == 5

\* the characters of an image reference: a letter, a digit, and the two
\* separators
Chars == {"v", "1", "/", ":"}

\* the image references: strings as sequences of characters
RECURSIVE StringsUpTo(_)
StringsUpTo(n) ==
    IF n = 0 THEN {<<>>}
    ELSE LET shorter == StringsUpTo(n - 1)
         IN  shorter \cup {Append(s, c) : s \in shorter, c \in Chars}

Images == StringsUpTo(MaxImageLen)

\* str::split(sep): the fields between the separators, in order
RECURSIVE Split(_, _)
Split(s, sep) ==
    IF \A i \in 1..Len(s) : s[i] # sep THEN <<s>>
    ELSE LET i == CHOOSE k \in 1..Len(s) :
                     s[k] = sep /\ \A j \in 1..(k - 1) : s[j] # sep
         IN  <<SubSeq(s, 1, i - 1)>> \o Split(SubSeq(s, i + 1, Len(s)), sep)

Ok(v) == [ok |-> TRUE, value |-> v]

Err(msg) == [ok |-> FALSE, value |-> msg]


\* mutant: the first field is taken for the tag
ImageTagFirstField(image) == Ok(Split(image, ":")[1])

\* `image.split(':').nth(1).ok_or(anyhow!("image does not have a tag"))`
ImageTag(image) ==
    LET fields == Split(image, ":")
    IN  IF Len(fields) >= 2 THEN Ok(fields[2])
        ELSE Err("image does not have a tag")

\* what VaultVersion::try_from reads of a pod or a stateful set: the spec
\* (and for a stateful set the pod spec of its template), the first
\* container and its image, each of which can be missing
VersionSources ==
    [kind : {"pod", "statefulset"},
     has : {"no spec", "no pod spec", "no container", "no image"},
     image : {<<>>}]
    \cup [kind : {"pod", "statefulset"}, has : {"image"}, image : Images]

\* VaultVersion::try_from(&Pod) / VaultVersion::try_from(&StatefulSet)
VersionTryFrom(obj) ==
    CASE obj.has = "no spec" -> Err(obj.kind \o " does not have a spec")
      [] obj.has = "no pod spec" ->
            IF obj.kind = "statefulset"
            THEN Err("statefulset does not have a pod spec")
            ELSE Err("pod does not have a spec")
      [] obj.has = "no container" -> Err(obj.kind \o " does not have a container")
      [] obj.has = "no image" -> Err("container does not have an image")
      [] obj.has = "image" -> ImageTag(obj.image)

\* the version of a pod or of a stateful set is extracted
CallVersionTryFrom ==
    \E obj \in VersionSources : Called("try_from", obj, VersionTryFrom(obj))

\* PodApi::is_current(pod, target) on a pod whose image has the tag
CallIsCurrent ==
    \E podVersion \in AllVersions, tgt \in AllVersions :
        Called("is_current", [pod |-> podVersion, target |-> tgt],
               IsCurrent(podVersion, tgt))

\* plaintexts of a secret (an unseal key or the token) of two runs
Secrets == {"secret-a", "secret-b"}

\* bodies of the response of the server (Vault does not echo the request)
Bodies == {"", "permission denied", "invalid key"}

\* the places where step_down, unseal, get_unseal_keys and PodApi::upgrade
\* fail while they hold a key or the token
FailureSites ==
    {"step_down: request", "step_down: send", "step_down: utf8",
     "step_down: status",
     "unseal: no keys", "unseal: ready", "unseal: request", "unseal: send",
     "unseal: utf8", "unseal: status",
     "get_unseal_keys: request", "get_unseal_keys: send",
     "get_unseal_keys: utf8", "get_unseal_keys: status",
     "upgrade: step_down", "upgrade: unseal"}


\* mutant: the failed request is reported with the key or token it carried
ErrorMessageWithSecret(site, body, secret) == <<site, secret, body>>

\* the message of the anyhow::Error returned at `site`, as the sequence of
\* its parts: the literals of the format strings, the response body, the pod
\* name, or the name of the library error that `?` converts (http::Error,
\* hyper::Error, FromUtf8Error print no header value and no body)
ErrorMessage(site, body, secret) ==
    CASE site \in {"step_down: request", "unseal: request",
                   "get_unseal_keys: request"} -> <<"http::Error">>
      [] site \in {"step_down: send", "unseal: send", "unseal: ready",
                   "get_unseal_keys: send"} -> <<"hyper::Error">>
      [] site \in {"step_down: utf8", "unseal: utf8",
                   "get_unseal_keys: utf8"} -> <<"FromUtf8Error">>
      [] site = "step_down: status" -> <<"stepping-down: ", body>>
      [] site = "unseal: no keys" -> <<"no keys provided">>
      [] site = "unseal: status" -> <<"unsealing: ", body>>
      [] site = "get_unseal_keys: status" -> <<"retrieving unseal keys: ", body>>
      [] site = "upgrade: step_down" -> <<"stepping-down: ", body>>
      [] site = "upgrade: unseal" ->
            <<"unsealing pod ", "name", ": ", "unsealing: ", body>>

\* the same failure in two runs that differ in the plaintext of the secret
CallFailing ==
    \E site \in FailureSites, body \in Bodies, a \in Secrets, b \in Secrets :
        Called("failure", [site |-> site, body |-> body, secrets |-> <<a, b>>],
               <<ErrorMessage(site, body, a), ErrorMessage(site, body, b)>>)

\* RaftConfigurationServer: the two fields the conditions read
RaftServers == [leader : BOOLEAN, voter : BOOLEAN]

\* Option<&RaftConfiguration>::None
NoConfig == [some |-> FALSE, servers |-> <<>>]

\* the configurations a poll can return: data.config.servers, with up to as
\* many servers as the cluster has pods
RaftConfigurations ==
    {[some |-> TRUE, servers |-> s] :
        s \in UNION {[1..n -> RaftServers] : n \in 0..NumPods}}

\* Iterator::any over the servers, from the front
RECURSIVE IterAny(_, _)
IterAny(servers, field) ==
    IF servers = <<>> THEN FALSE
    ELSE IF Head(servers)[field] THEN TRUE
    ELSE IterAny(Tail(servers), field)

\* Iterator::all over the servers, from the front
RECURSIVE IterAll(_, _)
IterAll(servers, field) ==
    IF servers = <<>> THEN TRUE
    ELSE IF ~Head(servers)[field] THEN FALSE
    ELSE IterAll(Tail(servers), field)

\* raft_configuration_any_leader
RaftConfigurationAnyLeader(obj) == obj.some /\ IterAny(obj.servers, "leader")


\* mutant: one voter is enough
RaftConfigurationAllVotersAny(obj) == obj.some /\ IterAny(obj.servers, "voter")

\* raft_configuration_all_voters
RaftConfigurationAllVoters(obj) == obj.some /\ IterAll(obj.servers, "voter")

\* the two conditions applied to a configuration or to None
CallRaftCondition ==
    \E obj \in RaftConfigurations \cup {NoConfig} :
        Called("raft_condition", obj,
               [any_leader |-> RaftConfigurationAnyLeader(obj),
                all_voters |-> RaftConfigurationAllVoters(obj)])

\* the statuses of the responses to a poll
PollStatuses == {200, 204, 500}

\* the response to GET /v1/sys/seal-status: its status and its body, which
\* decodes to a PodSealStatus (of which initialized and sealed are read) or
\* does not decode
PollResponses ==
    [status : PollStatuses, decodable : BOOLEAN, initialized : BOOLEAN,
     sealed : BOOLEAN]


\* mutant: every success status is taken
SealStatusOkSuccess(resp) == resp.status \in 200..299 /\ resp.decodable

\* seal_status: `parts.status != hyper::StatusCode::OK` is an error, and so
\* is a body that serde_json::from_str does not decode
SealStatusOk(resp) == resp.status = 200 /\ resp.decodable

\* is_seal_status_initialized, on Some(status)
IsSealStatusInitialized(resp) == resp.initialized

\* one round of the loop of await_seal_status: `self.seal_status().await?`,
\* then `if cond.matches_object(Some(&status)) { return Ok(Some(status)) }`
AfterPoll(resp) ==
    IF ~SealStatusOk(resp) THEN "Err"
    ELSE IF IsSealStatusInitialized(resp) THEN "Returned"
    ELSE "Polling"

\* pf.await_seal_status(is_seal_status_initialized()) is called
PollStart ==
    Called("await_seal_status", [sent |-> 0, polled |-> <<>>], "Polling")

\* the loop sends the request of its next round
PollSend ==
    /\ call.fn = "await_seal_status"
    /\ call.out = "Polling"
    /\ call.in.sent = Len(call.in.polled)
    /\ call.in.sent < MaxEvents
    /\ call' = [call EXCEPT !.in.sent = @ + 1]
    /\ UNCHANGED <<envVars, opts, drvVars, procVars, histVars>>

\* the response to the request in flight arrives
PollResponse ==
    /\ call.fn = "await_seal_status"
    /\ call.out = "Polling"
    /\ call.in.sent = Len(call.in.polled) + 1
    /\ \E resp \in PollResponses :
          call' = [call EXCEPT !.in.polled = Append(@, resp),
                               !.out = AfterPoll(resp)]
    /\ UNCHANGED <<envVars, opts, drvVars, procVars, histVars>>

\* the stateful sets is_statefulset_updated is applied to: none, one without
\* a status, and a status with replicas and the optional updated_replicas
UpdateSnapshots ==
    [some : {FALSE}, status : {FALSE}, replicas : {0}, updated_replicas : {<<>>}]
    \cup [some : {TRUE}, status : {FALSE}, replicas : {0}, updated_replicas : {<<>>}]
    \cup [some : {TRUE}, status : {TRUE}, replicas : Replicas,
          updated_replicas : OptReplicas]

\* is_statefulset_updated: `if let Some(updated) = status.updated_replicas
\* { return updated != status.replicas; }`, false otherwise
IsStatefulSetUpdated(obj) ==
    /\ obj.some
    /\ obj.status
    /\ obj.updated_replicas # <<>>
    /\ obj.updated_replicas[1] # obj.replicas

\* the condition is applied to a snapshot of the stateful set
CallUpdatedCondition ==
    \E sts \in UpdateSnapshots :
        Called("is_statefulset_updated", sts, IsStatefulSetUpdated(sts))

FnNext ==
    \/ CallStepDown
    \/ CallFailing
    \/ CallIsCurrent
    \/ CallVersionTryFrom
    \/ CallCondition
    \/ CallUpgradeEntry
    \/ CallAfterSealStatus
    \/ CallLabelKey
    \/ AwaitStart
    \/ WatchDeliver
    \/ CallRaftCondition
    \/ PollStart
    \/ PollSend
    \/ PollResponse
    \/ CallUpdatedCondition

FnSpec == FnInit /\ [][FnNext]_vars

\* C23: step_down returns Ok exactly for a response with status 204; every
\* other status, 200 and the other 2xx included, gives Err.
C23_OnlyNoContentIsOk ==
    call.fn = "step_down" => (call.out = "Ok" <=> call.in = 204)

C23_Witness ==
    /\ call.fn = "step_down"
    /\ call.in = 200
    /\ call.out = "Err"

\* the label is absent or its value is neither "true" nor "false"
BadLabel(v) == v \notin {"true", "false"}

\* C24: wherever the upgrade consults the active or the sealed label of a
\* pod whose label is absent or neither "true" nor "false", it fails: the
\* step-down decision and the sealed check end in an error, and the standby
\* and unsealed wait conditions do not hold for such a pod.
C24_BadLabelIsError ==
    /\ (/\ call.fn = "upgrade_entry"
        /\ BadLabel(call.in.pod.active)
        /\ (call.in.pod.version # target \/ call.in.force))
           => call.out = "err"
    /\ (/\ call.fn = "after_seal_status"
        /\ BadLabel(call.in.pod.sealed)
        /\ call.in.pod.version = target)
           => call.out = "err"
    /\ (call.fn = "is_pod_standby" /\ call.in.some /\ BadLabel(call.in.active))
           => ~call.out
    /\ (call.fn = "is_pod_unsealed" /\ call.in.some /\ BadLabel(call.in.sealed))
           => ~call.out

\* C25: every condition over pods is false on None.
C25_AbsentIsFalse ==
    (call.fn \in Conditions /\ call.in = NoPod) => ~call.out

\* C26: in a run for flavor F every reader of the active or the sealed
\* label looks up the key F-active or F-sealed.
C26_KeysOfTheFlavor ==
    call.fn = "label_key" =>
        call.out \in {FlavorKey(call.in.flavor, "active"),
                      FlavorKey(call.in.flavor, "sealed")}

\* the snapshot has ready_replicas and available_replicas set and both
\* equal to replicas
AllReplicasReady(sts) ==
    /\ sts.some /\ sts.status
    /\ sts.ready_replicas = <<sts.replicas>>
    /\ sts.available_replicas = <<sts.replicas>>

\* C27: the await for the ready stateful set has returned exactly if one of
\* the snapshots delivered to it has ready_replicas and available_replicas
\* set and equal to replicas, and then it returned on the first such
\* snapshot (no snapshot is delivered to it after that one).
C27_ReturnsOnReadySnapshot ==
    call.fn = "await_condition" =>
        /\ call.out = "Returned" <=>
               \E i \in 1..Len(call.in) : AllReplicasReady(call.in[i])
        /\ \A i \in 1..Len(call.in) :
               AllReplicasReady(call.in[i]) => i = Len(call.in)

C27_Witness ==
    /\ call.fn = "await_condition"
    /\ call.out = "Returned"
    /\ Len(call.in) = 2
    /\ call.in[1].ready_replicas = <<1>>
    /\ call.in[1].available_replicas = <<0>>
    /\ call.in[1].replicas = 1

\* the number of ':' in an image reference
Colons(image) == Cardinality({i \in 1..Len(image) : image[i] = ":"})

\* C28: for a pod and for a stateful set alike, the version extracted from
\* an image reference repo/name:tag (one ':' after the '/', none in the
\* tag) is the text after the ':', and the extraction from a reference
\* without ':' fails.
C28_ExtractsTheTag ==
    (call.fn = "try_from" /\ call.in.has = "image") =>
        LET image == call.in.image
        IN  /\ Colons(image) = 0 =>
                   call.out = Err("image does not have a tag")
            /\ \A i \in 1..Len(image) :
                   (/\ image[i] = ":"
                    /\ Colons(image) = 1
                    /\ \E j \in 1..(i - 1) : image[j] = "/")
                   => call.out = Ok(SubSeq(image, i + 1, Len(image)))

C28_Witness ==
    /\ call.fn = "try_from"
    /\ call.in.kind = "statefulset"
    /\ call.in.has = "image"
    /\ call.in.image = <<"v", "/", "v", ":", "1">>
    /\ call.out = Ok(<<"1">>)

\* C29: is_current holds exactly if the pod's tag is equal to the target
\* tag, and PodApi::upgrade entered with a pod whose tag differs from the
\* target, a newer one included, goes the way of the restart (step-down or
\* delete, or the labeling error) and never the way of a current pod.
C29_CurrentIffEqualTag ==
    /\ call.fn = "is_current" => (call.out <=> call.in.pod = call.in.target)
    /\ (call.fn = "upgrade_entry" /\ call.in.pod.version # target) =>
           call.out = (IF call.in.pod.active = "none" THEN "err"
                       ELSE IF call.in.pod.active = "true" THEN "sd_open"
                       ELSE "delete")
    /\ (call.fn = "upgrade_entry" /\ call.in.pod.version = target
                                  /\ ~call.in.force) =>
           call.out = "wait_running"

C29_Witness ==
    /\ call.fn = "upgrade_entry"
    /\ call.in.pod.version = VERSION_NEWER
    /\ target = VERSION_CURRENT
    /\ ~call.in.force
    /\ call.out = "delete"

C31_RaftPredicates ==
    call.fn = "raft_condition" =>
        IF call.in.some
        THEN /\ call.out.any_leader <=>
                   \E i \in 1..Len(call.in.servers) : call.in.servers[i].leader
             /\ call.out.all_voters <=>
                   \A i \in 1..Len(call.in.servers) : call.in.servers[i].voter
        ELSE ~call.out.any_leader /\ ~call.out.all_voters

C31_Witness ==
    /\ call.fn = "raft_condition"
    /\ Len(call.in.servers) = 2
    /\ call.in.servers[1].voter
    /\ ~call.in.servers[2].voter
    /\ ~call.in.servers[1].leader
    /\ call.in.servers[2].leader
    /\ call.out = [any_leader |-> TRUE, all_voters |-> FALSE]

\* C32: a call for a pod at the target version without force_upgrade sends
\* no step-down, requests no delete and does not wait for the running
\* phase: it is never at the running wait and never returns from it.
C32_CurrentSkipsToSealStatus ==
    (cur.some /\ cur.version = target /\ ~opts.force_upgrade) =>
        /\ StepDowns = <<>>
        /\ Deletes = {}
        /\ ppc # "wait_running"
        /\ ~HasEvent("running")

\* the response is a 200 with a body that decodes
GoodPoll(resp) == resp.status = 200 /\ resp.decodable

\* C33: the poll-await has at most one request in flight and sends the next
\* only after the response to the last; it has returned exactly if the last
\* response is a good one that is initialized, it has failed exactly if the
\* last response is a non-200 or does not decode, every response before the
\* last was good and not initialized, and after returning or failing no
\* request is in flight.
C33_PollAwait ==
    call.fn = "await_seal_status" =>
        LET polled == call.in.polled
            n == Len(polled)
        IN  /\ call.in.sent \in {n, n + 1}
            /\ call.out = "Returned" <=>
                   (n > 0 /\ GoodPoll(polled[n]) /\ polled[n].initialized)
            /\ call.out = "Err" <=> (n > 0 /\ ~GoodPoll(polled[n]))
            /\ \A i \in 1..(n - 1) :
                   GoodPoll(polled[i]) /\ ~polled[i].initialized
            /\ call.out # "Polling" => call.in.sent = n

C33_Witness ==
    /\ call.fn = "await_seal_status"
    /\ call.out = "Returned"
    /\ Len(call.in.polled) = 2
    /\ call.in.sent = 2
    /\ ~call.in.polled[1].initialized

\* C34: a call that ends at the delete request or at the wait for its
\* finalization ends with an error, and it has not waited for the running
\* phase, opened no channel, polled no seal status and sent no unseal
\* request; the procedure leaves these two positions for the running wait
\* only when the delete was finalized.
C34_DeleteFailureAborts ==
    [][/\ (ppc \in {"delete", "wait_deleted"} /\ ppc' = "idle") =>
              /\ dpc' = "done_err"
              /\ \A k \in 1..Len(trace') :
                    trace'[k].ev \notin {"running", "channel", "initialized"}
              /\ UnsealReqs' = <<>>
       /\ (ppc \in {"delete", "wait_deleted"} /\ ppc' = "wait_running") =>
              (trace' # <<>> /\ trace'[Len(trace')].ev = "deleted")]_vars

C34_Witness ==
    /\ dpc = "done_err"
    /\ HasEvent("delete")
    /\ ~HasEvent("deleted")
    /\ ~HasEvent("running")
    /\ \E p \in Pods : phase[p] = "Terminating"

\* the step-down and unseal requests sent by the call
HttpRequests == Len(StepDowns) + Len(UnsealReqs)

\* the responses the call has taken (a response that is an error ends it)
Answered ==
    Cardinality({k \in 1..Len(trace) : trace[k].ev \in {"step_down", "unseal"}})

\* the positions at which the procedure waits on a watch or a poll
WaitPcs == {"wait_standby", "wait_deleted", "wait_running", "seal_status",
            "wait_unsealed", "wait_ready"}

\* C35: while a call runs, at most one of its HTTP requests to the pod is
\* unanswered, and that only while the procedure awaits its response; a
\* step-down, delete or unseal is issued only when every earlier request
\* was answered and the procedure is not at one of its waits.
C35_OneOperationAtATime ==
    [][/\ ppc' # "idle" =>
              /\ HttpRequests' - Answered' \in {0, 1}
              /\ HttpRequests' - Answered' = 1 <=> ppc' \in {"sd_resp", "unseal_resp"}
       /\ Issues =>
              /\ HttpRequests = Answered
              /\ ppc \notin WaitPcs]_vars

C35_Witness ==
    /\ ppc = "unseal_resp"
    /\ Len(UnsealReqs) = 2
    /\ Answered = 2
    /\ Len(StepDowns) = 1

(* ---------------------------------------------------------------------- *)
(* One call of PodApi::upgrade that its caller may cancel                  *)
(* ---------------------------------------------------------------------- *)

\* mutant: the procedure goes on after the caller gave it up
CancelledPcKeepsRunning(pc) == pc

\* the future of PodApi::upgrade is dropped at the await it is suspended in:
\* none of its later statements runs
CancelledPc(pc) == "idle"

\* `tokio::time::timeout(.., pods.upgrade(..)).await` elapses while the call
\* is suspended at the await of position ppc
Cancel ==
    /\ ppc # "idle"
    /\ dpc \in {"standby_loop", "active_loop"}
    /\ ppc' = CancelledPc(ppc)
    /\ dpc' = "cancelled"
    /\ trace' = Append(trace, Ev("cancelled", ppc))
    /\ UNCHANGED <<envVars, inVars, target, standby, active, idx, cur,
                   pod2, attempts, sent, issued>>

CancelPodNext == PodNext \/ Cancel

CancelPodSpec == PodInit /\ [][CancelPodNext]_vars

Between ==
    /\ dpc = "done_err"
    /\ \E p \in Pods :
        \/ Finalize(p)
        \/ Recreate(p)
        \/ Start(p)
        \/ Register(p)
        \/ Initialize(p)
        \/ Unsealed(p)
        \/ BecomeReady(p)
        \/ LoseLeadership(p)
        \/ GainLeadership(p)

\* `let pod = pods.api.get(name)` and `pods.upgrade(pod, target, .., false, ..)`
\* again, on the pod of a call that failed or was cancelled after its
\* finalization wait had returned
Reinvoke ==
    /\ dpc \in {"done_err", "cancelled"}
    /\ ppc = "idle"
    /\ HasEvent("deleted")
    /\ ~HasEvent("reinvoked")
    /\ Snapshot(cur.name).some
    /\ LET pod == Snapshot(cur.name)
           pc == EnterPc(pod, target, FALSE)
       IN  /\ cur' = pod
           /\ ppc' = IF pc = "err" THEN "idle" ELSE pc
           /\ dpc' = IF pc = "err" THEN "done_err" ELSE "retry"
    /\ opts' = [opts EXCEPT !.force_upgrade = FALSE]
    /\ trace' = <<Ev("reinvoked", "")>>
    /\ pod2' = NoPod
    /\ attempts' = 0
    /\ sent' = 0
    /\ UNCHANGED <<envVars, call, target, standby, active, idx, issued>>

RetryNext == PodNext \/ Cancel \/ Between \/ Reinvoke

RetrySpec == PodInit /\ [][RetryNext]_vars

\* the positions of the seal-status, unseal, unsealed and ready steps and of
\* the running wait, pod read and channel open before them
ResumePcs == {"wait_running", "get", "open", "seal_status", "unseal",
              "unseal_resp", "wait_unsealed", "wait_ready"}

EventIndex(e) == CHOOSE k \in 1..Len(trace) : trace[k].ev = e

\* C37: a call of PodApi::upgrade made again, without force, on a fresh
\* snapshot of a pod whose deletion an earlier call saw finalized, issues no
\* delete and no step-down (its only requests are unseal requests); it
\* is only ever at the running wait, the pod read, the channel open and the
\* seal-status, unseal, unsealed and ready steps; and when it returns Ok it
\* has seen the seal status initialized, then the pod unsealed, then ready.
C37_ReinvokeDoesNotDeleteAgain ==
    [][HasEvent("reinvoked")' =>
          /\ Issues => issued'[Len(issued')].op = "unseal"
          /\ ppc' \in ResumePcs \cup {"idle"}
          /\ Cardinality(Deletes') = 1
          /\ ReturnsOk =>
                /\ HasEvent("initialized")' /\ HasEvent("unsealed")'
                /\ HasEvent("ready")'
                /\ EventIndex("initialized")' < EventIndex("unsealed")'
                /\ EventIndex("unsealed")' < EventIndex("ready")']_vars

\* the second call has returned Ok after it sent the keys to the replacement
C37_Witness ==
    /\ HasEvent("reinvoked")
    /\ dpc = "retry"
    /\ ppc = "idle"
    /\ HasEvent("unseal")
    /\ HasEvent("ready")
    /\ Cardinality(Deletes) = 1

\* the position of the first ':' of an image reference that has one
FirstColon(image) ==
    CHOOSE i \in 1..Len(image) :
        image[i] = ":" /\ \A j \in 1..(i - 1) : image[j] # ":"

\* C38: for a pod and for a stateful set alike, the version extracted from
\* an image reference that holds a ':' is the whole text after its first
\* ':', whether or not that text holds further ':'.
C38_WholeTextAfterFirstColon ==
    (call.fn = "try_from" /\ call.in.has = "image" /\ Colons(call.in.image) >= 1)
        => LET image == call.in.image
           IN  call.out = Ok(SubSeq(image, FirstColon(image) + 1, Len(image)))

\* C39: is_statefulset_updated holds exactly for a stateful set whose status
\* has updated_replicas set and equal to replicas; it does not hold when the
\* stateful set, its status or updated_replicas is missing, nor when the two
\* counts differ.
C39_UpdatedIffAllReplicasUpdated ==
    call.fn = "is_statefulset_updated" =>
        (call.out <=> /\ call.in.some
                      /\ call.in.status
                      /\ call.in.updated_replicas = <<call.in.replicas>>)

\* the delete requests of the run that went to pod p
DeletesOf(p) == {k \in Deletes : issued[k].pod = p}

\* C40: in one run of StatefulSetApi::upgrade no pod is deleted more than
\* once, and no pod is passed to PodApi::upgrade a second time: a call of
\* the loop over the active list is never on a pod of the standby list, all
\* of which the first loop has passed.
C40_EachPodOnce ==
    /\ \A p \in Pods : Cardinality(DeletesOf(p)) <= 1
    /\ (dpc = "active_loop" /\ ppc # "idle") =>
           \A i \in 1..Len(standby) : standby[i].name # cur.name

====
